---- MODULE Spec2Model ----
(***************************************************************************)
(* Model of the workflow runtime of demo_platform: the WorkflowEngine      *)
(* session state machine of backend/app/runtime/engine.py, its component   *)
(* handlers and the session store it persists to.                          *)
(*                                                                         *)
(* Pipeline steps are identified by their 0-based position in the          *)
(* pipeline (the value of _step_index for the step id); a UI step is       *)
(* identified by the position of the pipeline step whose params name it.   *)
(***************************************************************************)
EXTENDS Integers, Sequences, FiniteSets, TLC

\* ---------------------------------------------------------------- bounds
\* longest pipeline of a generated workflow document
MaxSteps == 4
\* number of submit_step requests issued in one behaviour
MaxCalls == 2
\* longest pipeline of a document used with overlapping requests
MaxConcSteps == 2
\* longest source list of a for_each step
MaxItems == 3
\* longest workflows list and longest pipeline of a workflow document text
MaxEntries == 2

\* ------------------------------------------------------------- constants
\* Python None where an int (step position, UI step id) is expected
NoStep == 0 - 2
\* pipeline_index of a new session
InitialIndex == 0 - 1
\* Python None where a string is expected
Nil == "None"
\* file=None of submit_step
NoFile == "no_file"
\* the uploaded files a client sends
Files == {"a.csv"}
\* outcomes of the provider's HTTP endpoint
ProviderOutcomes == {"200", "500"}
\* the session id (uuid4) of the session a behaviour creates
SessionId == "s1"

\* error texts (str(exc)) of the failures the handlers raise
MsgNoFile == "file is not attached"
MsgHttp500 == "Server error '500 Internal Server Error'"
MsgUnsupported == "unsupported component"

\* --------------------------------------------------------------- document
\* WorkflowEngine._components: the registered handlers
Components == {"file_uploader", "for_each", "call_workflow"}

\* ComponentHandler.requires_user_input of a registered handler
RequiresUserInput(component) == component = "file_uploader"

\* the component names the generated documents use: an interactive handler, a
\* non-interactive one, and a name _components does not register
Kinds == {"file_uploader", "call_workflow", "set_state"}

\* shape of one PipelineStep: its component and whether it carries a
\* condition that renders falsy; a file_uploader step names its UI step in
\* params["ui_step"], the other steps name none
StepShapes ==
    {[component |-> c, falsy |-> FALSE] : c \in Kinds}
    \cup {[component |-> "call_workflow", falsy |-> TRUE]}

\* the workflow documents: pipelines of 1..MaxSteps steps
Documents == UNION {[1..n -> StepShapes] : n \in 1..MaxSteps}

VARIABLES
    doc,            \* the loaded workflow document (pipeline), read-only
    store,          \* session store: session id -> persisted WorkflowSession
    req,            \* the submit_step call in flight: position and working copy
    request,        \* the last request received by the engine
    response,       \* what the last finished request returned or raised
    calls,          \* number of submit_step requests received
    env,            \* the process environment of the runtime API (REDIS_URL, Redis)
    service,        \* the WorkflowRuntimeService the API has bound, and its store
    api,            \* the last request to the runtime API and its response
    inflight,       \* overlapping submit_step calls: client -> call in flight
    solo,           \* the store as it is when each session's requests run alone
    fe,             \* a for_each step: its inputs, then what it wrote
    ydoc,           \* a workflow document text, then what loading it gave
    stores          \* the two session stores driven by the same calls

\* the state of the WorkflowEngine and of its callers
engine_vars == <<doc, store, req, request, response, calls>>

\* the state of the WorkflowRuntimeService behind the runtime API
service_vars == <<env, service, api>>

\* the state the WorkflowEngine never touches
aux_vars == <<service_vars, inflight, solo, fe, ydoc, stores>>

vars == <<engine_vars, aux_vars>>

\* _step_order as positions
Positions == 0..(Len(doc) - 1)

\* _step_by_id[step_id]
StepAt(i) == doc[i + 1]

\* self._components.get(step.component): TRUE when a handler is registered
HasHandler(i) == StepAt(i).component \in Components

\* step.params.get("ui_step")
UiStepParam(i) == IF StepAt(i).component = "file_uploader" THEN i ELSE NoStep

\* step.params.get("activate_ui_step"): the documents considered set none
ActivateParam(i) == NoStep

\* _ui_order as a set of UI step ids (ordered by id)
UiOrder == {i \in Positions : UiStepParam(i) # NoStep}

\* Python min() of a non-empty set of ints
Min(S) == CHOOSE x \in S : \A y \in S : x <= y

\* WorkflowEngine._next_ui_step
NextUiStep(ui) ==
    IF ui \notin UiOrder THEN NoStep
    ELSE IF {u \in UiOrder : u > ui} = {} THEN NoStep
    ELSE Min({u \in UiOrder : u > ui})

\* WorkflowEngine._next_user_step
NextUserStep(index) ==
    LET cands == {i \in Positions : i > index /\ HasHandler(i)
                                     /\ RequiresUserInput(StepAt(i).component)}
    IN  IF cands = {} THEN NoStep ELSE Min(cands)

\* ---------------------------------------------------------------- session
\* an empty dict
EmptyDict == [k \in {} |-> Nil]

\* utils.deep_merge on flat dicts
deep_merge(base, updates) ==
    [k \in (DOMAIN base) \cup (DOMAIN updates) |->
        IF k \in DOMAIN updates THEN updates[k] ELSE base[k]]

\* utils.build_path_value for a single-segment path
build_path_value(key, value) == [k \in {key} |-> value]

\* the new session without lines 71-72: no UI step is made active
NewSession_NoActiveUiStep ==
    [status |-> "awaiting_input",
     active_ui_step |-> NoStep,
     completed_ui_steps |-> <<>>,
     step_status |-> [i \in Positions |-> "pending"],
     public |-> EmptyDict,
     private |-> EmptyDict,
     step_outputs |-> EmptyDict,
     last_error |-> Nil,
     pipeline_index |-> InitialIndex]

\* the new session with a status for the interactive steps only
NewSession_UiStepsOnly ==
    [status |-> "awaiting_input",
     active_ui_step |-> IF UiOrder = {} THEN NoStep ELSE Min(UiOrder),
     completed_ui_steps |-> <<>>,
     step_status |-> [i \in UiOrder |-> "pending"],
     public |-> EmptyDict,
     private |-> EmptyDict,
     step_outputs |-> EmptyDict,
     last_error |-> Nil,
     pipeline_index |-> InitialIndex]

\* WorkflowSession() as create_session fills it
NewSession ==
    [status |-> "awaiting_input",
     active_ui_step |-> IF UiOrder = {} THEN NoStep ELSE Min(UiOrder),
     completed_ui_steps |-> <<>>,
     step_status |-> [i \in Positions |-> "pending"],
     public |-> EmptyDict,
     private |-> EmptyDict,
     step_outputs |-> EmptyDict,
     last_error |-> Nil,
     pipeline_index |-> InitialIndex]

\* WorkflowSession.to_public_state
to_public_state(s) ==
    [status |-> s.status,
     active_ui_step |-> s.active_ui_step,
     completed_ui_steps |-> s.completed_ui_steps,
     step_status |-> s.step_status,
     context |-> s.public,
     last_error |-> s.last_error]

\* ExecutionResult() with no updates
EmptyResult == [raised |-> FALSE, msg |-> Nil, public |-> EmptyDict,
                private |-> EmptyDict, step_output |-> EmptyDict, direct |-> FALSE]

\* a handler that raised
Raised(message) == [EmptyResult EXCEPT !.raised = TRUE, !.msg = message]

\* FileUploaderComponent.execute
FileUploaderExecute(s, i, file) ==
    IF file = NoFile THEN Raised(MsgNoFile)
    ELSE [EmptyResult EXCEPT
            !.private = build_path_value(i, file),
            !.public = build_path_value(i, "metadata"),
            !.step_output = build_path_value("metadata", "metadata")]

\* CallWorkflowComponent.execute; outcome is the provider's HTTP status
CallWorkflowExecute(s, i, outcome) ==
    IF outcome # "200" THEN Raised(MsgHttp500)
    ELSE [EmptyResult EXCEPT
            !.public = build_path_value(i, "response"),
            !.step_output = build_path_value("response", "response"),
            !.direct = TRUE]

\* handler.execute(exec_context, payload, file)
HandlerExecute(s, i, file, outcome) ==
    IF StepAt(i).component = "file_uploader"
    THEN FileUploaderExecute(s, i, file)
    ELSE CallWorkflowExecute(s, i, outcome)

\* list.append unless present (completed_ui_steps)
AppendUnique(seq, x) ==
    IF \E k \in 1..Len(seq) : seq[k] = x THEN seq ELSE Append(seq, x)

\* WorkflowEngine._update_ui_state
update_ui_state(s, i) ==
    LET ui_step == UiStepParam(i)
        activate == ActivateParam(i)
    IN  IF RequiresUserInput(StepAt(i).component) /\ ui_step # NoStep
        THEN LET next_ui == IF activate # NoStep THEN activate ELSE NextUiStep(ui_step)
             IN  [s EXCEPT !.completed_ui_steps = AppendUnique(@, ui_step),
                           !.active_ui_step = IF next_ui # NoStep THEN next_ui ELSE ui_step]
        ELSE IF activate # NoStep THEN [s EXCEPT !.active_ui_step = activate]
        ELSE IF ui_step # NoStep THEN [s EXCEPT !.active_ui_step = ui_step]
        ELSE s

\* WorkflowEngine._apply_result
apply_result(s, i, result) ==
    LET s1 == [s EXCEPT
                 !.public = IF DOMAIN result.public # {} THEN deep_merge(@, result.public) ELSE @,
                 !.private = IF DOMAIN result.private # {} THEN deep_merge(@, result.private) ELSE @,
                 !.step_outputs = IF DOMAIN result.step_output # {}
                                  THEN deep_merge(@, build_path_value(i, result.step_output))
                                  ELSE @,
                 !.step_status = [@ EXCEPT ![i] = "completed"],
                 !.pipeline_index = i]
    IN  update_ui_state(s1, i)

\* _execute_step without the condition test of lines 139-144
execute_step_IgnoresCondition(s, i, file, outcome) ==
    LET s1 == [s EXCEPT !.step_status = [@ EXCEPT ![i] = "running"]]
        result == HandlerExecute(s1, i, file, outcome)
        s2 == IF result.direct
              THEN [s1 EXCEPT !.step_outputs =
                       deep_merge(@, build_path_value(i, "response"))]
              ELSE s1
    IN  IF result.raised
        THEN [session |-> s2, invoked |-> TRUE, raised |-> TRUE, msg |-> result.msg,
              handled |-> s2]
        ELSE [session |-> apply_result(s2, i, result), invoked |-> TRUE,
              raised |-> FALSE, msg |-> Nil, handled |-> s2]

\* WorkflowEngine._execute_step: the session after the step, whether the
\* handler was invoked, whether (and with what text) it raised, and the
\* session as it was when handler.execute returned or raised
execute_step(s, i, file, outcome) ==
    IF StepAt(i).falsy
    THEN [session |-> [s EXCEPT !.step_status = [@ EXCEPT ![i] = "completed"],
                                !.pipeline_index = i],
          invoked |-> FALSE, raised |-> FALSE, msg |-> Nil, handled |-> s]
    ELSE LET s1 == [s EXCEPT !.step_status = [@ EXCEPT ![i] = "running"]]
             result == HandlerExecute(s1, i, file, outcome)
             \* call_workflow.py line 83 writes step_outputs before returning
             s2 == IF result.direct
                   THEN [s1 EXCEPT !.step_outputs =
                            deep_merge(@, build_path_value(i, "response"))]
                   ELSE s1
         IN  IF result.raised
             THEN [session |-> s2, invoked |-> TRUE, raised |-> TRUE, msg |-> result.msg,
                   handled |-> s2]
             ELSE [session |-> apply_result(s2, i, result), invoked |-> TRUE,
                   raised |-> FALSE, msg |-> Nil, handled |-> s2]

\* autonomous_next without the requires_user_input test of line 168
autonomous_next_IgnoresUserInput(s) ==
    LET next_idx == s.pipeline_index + 1
    IN  IF next_idx >= Len(doc) THEN "break"
        ELSE IF ~HasHandler(next_idx) THEN "raise"
        ELSE "run"

\* one iteration test of WorkflowEngine._execute_autonomous_steps:
\* "break", "raise" (no handler) or "run" for the step after the cursor
autonomous_next(s) ==
    LET next_idx == s.pipeline_index + 1
    IN  IF next_idx >= Len(doc) THEN "break"
        ELSE IF ~HasHandler(next_idx) THEN "raise"
        ELSE IF RequiresUserInput(StepAt(next_idx).component) THEN "break"
        ELSE "run"

\* _update_session_status that leaves the status as submit_step set it
update_session_status_KeepsStatus(s) == s

\* WorkflowEngine._update_session_status
update_session_status(s) ==
    IF s.last_error # Nil /\ s.last_error # ""
    THEN [s EXCEPT !.status = "awaiting_input"]
    ELSE LET next_step == NextUserStep(s.pipeline_index)
         IN  IF next_step = NoStep THEN [s EXCEPT !.status = "completed"]
             ELSE [s EXCEPT !.status = "awaiting_input",
                            !.active_ui_step = IF UiStepParam(next_step) # NoStep
                                               THEN UiStepParam(next_step) ELSE @]

\* -------------------------------------------------------------- the store
\* StateStoreProtocol.load: the persisted copy, or absent
StoreHas(sid) == sid \in DOMAIN store

\* StateStoreProtocol.save / create: persist a copy of the session
StoreSave(sid, s) == [k \in (DOMAIN store) \cup {sid} |-> IF k = sid THEN s ELSE store[k]]

\* ------------------------------------------- the runtime API and its service
\* REDIS_URL is not set in the environment
Absent == "absent"
\* the values of REDIS_URL: not set, the in-memory marker, a Redis URL
RedisUrls == {Absent, "memory", "redis://cache:6379/0"}
\* the URL get_runtime_service falls back to when REDIS_URL is not set
DefaultRedisUrl == "redis://redis:6379/0"

\* the raw contents (base64) a client uploads: b"data" and b"a"
Contents == {"ZGF0YQ==", "YQ=="}

\* len(base64.b64decode(content))
DecodedLen(content) == IF content = "ZGF0YQ==" THEN 4 ELSE 1

\* the body of the provider's 200 response
ProviderResponse == [outputs |-> [items |-> <<"x", "y">>]]

\* the runtime's workflow.yaml: the pipeline [store_file: file_uploader,
\* call_api: call_workflow, transform: for_each], followed or not by a step
\* finish: set_state; the documents differ in the file step's "target" (the
\* container and key of the dotted path), in whether it has a view_path, and
\* in the path the call step's input_mapping refers to ({document: $<source>}):
\* the uploaded file, or an input no request supplies
ServiceWorkflows ==
    [target : {<<"inputs", "upload">>, <<"files", "upload">>}, view_path : BOOLEAN,
     tail : {"none", "set_state"},
     source : {<<"inputs", "upload">>, <<"inputs", "note">>}]

\* Python's None as a value of the context or of a payload
PyNone == [none |-> TRUE]

\* ExecutionContext.get(path, default) of a two-segment dotted path
ContextGet(data, path, default) ==
    IF path[1] \in DOMAIN data /\ path[2] \in DOMAIN data[path[1]]
    THEN data[path[1]][path[2]] ELSE default

\* WorkflowRuntimeService._register_components: the registered names
ServiceComponents == {"call_workflow", "file_uploader", "for_each"}

\* str(exc) of the ComponentExecutionErrors of the two components
MsgNotProvided == "Input 'upload' was not provided"
MsgProviderFailed == "Provider request failed with status 500"
\* str(KeyError("Unknown component: set_state"))
MsgUnknownComponent == "'Unknown component: set_state'"

\* a dict restricted to the keys of a comprehension `for k in keys if k in d`
Restrict(d, keys) == [k \in (DOMAIN d) \cap keys |-> d[k]]

\* the fields of a file the runtime treats as metadata
MetaKeys == {"name", "content_type", "size"}

\* ExecutionContext.set / set_view for a path "container.key": the container
\* is created when the data has none (_ensure_container)
SetPath(data, container, key, value) ==
    LET inner == IF container \in DOMAIN data THEN data[container] ELSE EmptyDict
    IN  [c \in (DOMAIN data) \cup {container} |->
            IF c = container
            THEN [k \in (DOMAIN inner) \cup {key} |-> IF k = key THEN value ELSE inner[k]]
            ELSE data[c]]

\* ExecutionContext.set_view for a single-segment path
SetKey(view, key, value) ==
    [k \in (DOMAIN view) \cup {key} |-> IF k = key THEN value ELSE view[k]]

\* the request body's inputs: none, or the file of input "upload"
UploadOf(content) ==
    [upload |-> [name |-> "a.csv", content |-> content, content_type |-> "text/csv"]]

ExecuteInputs == {EmptyDict} \cup {UploadOf(c) : c \in Contents}

\* FileUploaderComponent._normalize_file of a dict payload
normalize_file(payload) ==
    [name |-> payload.name, content |-> payload.content,
     content_type |-> payload.content_type, size |-> DecodedLen(payload.content)]

\* workflow_runtime FileUploaderComponent.execute on the context (data, view)
ServiceFileUploader(wf, ctx) ==
    IF ~("inputs" \in DOMAIN ctx.data /\ "upload" \in DOMAIN ctx.data["inputs"])
    THEN [ctx EXCEPT !.raised = TRUE, !.msg = MsgNotProvided,
                     !.exc = "ComponentExecutionError"]
    ELSE LET normalized == normalize_file(ctx.data["inputs"]["upload"])
             meta == Restrict(normalized, MetaKeys)
             d1 == SetPath(ctx.data, wf.target[1], wf.target[2], normalized)
             d2 == SetPath(d1, "steps", "store_file", [file |-> meta])
         IN  [ctx EXCEPT !.data = d2,
                         !.view = IF wf.view_path THEN SetKey(@, "upload", meta) ELSE @]

\* what self._http.request does: status 0 stands for an httpx.HTTPError (a
\* timeout, a transport error), any other status for a response with that
\* status code (httpx.Client() follows no redirect) whose body is JSON or not
HttpOutcomes == [status : {0, 200, 302, 500}, json : BOOLEAN]

\* workflow_runtime CallWorkflowComponent.execute with input_mapping
\* {document: $<wf.source>}, resolved by _resolve_value as context.get(path,
\* None); outcome is what the one HTTP request does, sent the payload
ServiceCallWorkflow(wf, ctx, outcome) ==
    LET payload == [inputs |-> [document |-> ContextGet(ctx.data, wf.source, PyNone)]]
        failed(msg) == [ctx EXCEPT !.raised = TRUE, !.msg = msg, !.sent = payload,
                                   !.exc = "ComponentExecutionError"]
    IN  IF outcome.status = 0 THEN failed("HTTP request failed")
        ELSE IF outcome.status >= 400 THEN failed(MsgProviderFailed)
        ELSE IF ~outcome.json THEN failed("Provider returned invalid JSON")
        ELSE [ctx EXCEPT !.data = SetPath(@, "steps", "call_api", [response |-> ProviderResponse]),
                         !.view = SetKey(@, "result", ProviderResponse),
                         !.sent = payload]

\* ---------------------------------------------------- for_each: functions
\* the items of a source list
ItemValues == {"x", "y"}

\* what items_path / source resolves to: a list of at most MaxItems items, a
\* string, a number, nothing (the path is missing), or a mapping, whose items
\* are its keys
Sources ==
    {[kind |-> "list", items |-> s] : s \in UNION {[1..n -> ItemValues] : n \in 0..MaxItems}}
    \cup {[kind |-> k, items |-> <<>>] : k \in {"str", "int", "missing"}}
    \cup {[kind |-> "mapping", items |-> <<"x">>]}

\* the template / map parameter: a dict of strings or one string, with or
\* without a "{{ item }}" marker
Templates == [dict : BOOLEAN, markers : BOOLEAN]

\* str(exc) of the errors for_each raises
MsgNotList == "source must resolve to a list"
MsgPathNotFound == "path not found"
MsgMapNotObject == "map parameter must be an object"

\* utils.render_template(template, local_context) with local_context["item"]
\* = item: a marker renders to the item, any other text is returned as it is
render_template(template, item) ==
    [dict |-> template.dict, value |-> IF template.markers THEN item ELSE "text"]

RECURSIVE MapItems(_, _)
\* the loop of ForEachComponent.execute: the rendered items, and the number of
\* render_template / _apply_mapping calls made
MapItems(items, template) ==
    IF items = <<>> THEN [result |-> <<>>, renders |-> 0]
    ELSE LET rest == MapItems(Tail(items), template)
         IN  [result |-> <<render_template(template, Head(items))>> \o rest.result,
              renders |-> rest.renders + 1]

\* ForEachComponent.execute that returns no update for an empty result
ForEachExecute_DropsEmpty(source, template) ==
    IF source.kind = "missing" THEN [Raised(MsgPathNotFound) EXCEPT !.direct = 0]
    ELSE IF source.kind \in {"str", "int"} THEN [Raised(MsgNotList) EXCEPT !.direct = 0]
    ELSE LET m == MapItems(source.items, template)
         IN  IF m.result = <<>> THEN [EmptyResult EXCEPT !.direct = 0]
             ELSE [EmptyResult EXCEPT
                     !.public = build_path_value("output", m.result),
                     !.step_output = build_path_value("items", m.result),
                     !.direct = m.renders]

\* runtime ForEachComponent.execute: the ExecutionResult, with the number of
\* per-item resolutions in place of the flag of call_workflow
ForEachExecute(source, template) ==
    IF source.kind = "missing" THEN [Raised(MsgPathNotFound) EXCEPT !.direct = 0]
    ELSE IF source.kind \in {"str", "int"} THEN [Raised(MsgNotList) EXCEPT !.direct = 0]
    ELSE LET m == MapItems(source.items, template)
         IN  [EmptyResult EXCEPT
                 !.public = build_path_value("output", m.result),
                 !.step_output = build_path_value("items", m.result),
                 !.direct = m.renders]

\* workflow_runtime ForEachComponent.execute on the context data: source
\* defaults to [] when the path is missing, map must be a dict
ServiceForEach(data, source, template) ==
    IF ~template.dict THEN [raised |-> TRUE, msg |-> MsgMapNotObject, data |-> data, renders |-> 0]
    ELSE IF source.kind \in {"str", "int", "mapping"}
    THEN [raised |-> TRUE, msg |-> MsgNotList, data |-> data, renders |-> 0]
    ELSE LET m == MapItems(source.items, template)
         IN  [raised |-> FALSE, msg |-> Nil, renders |-> m.renders,
              data |-> SetPath(SetPath(data, "results", "output", m.result),
                               "steps", "transform", [items |-> m.result])]

\* the transform step of the runtime's pipeline: for_each over the items of
\* call_api's response with a map of "{{ item }}" templates, target and view_path
ServiceTransform(ctx) ==
    LET steps == ctx.data["steps"]
        found == "call_api" \in DOMAIN steps
        r == ServiceForEach(ctx.data,
                 [kind |-> "list",
                  items |-> IF found THEN steps["call_api"]["response"]["outputs"]["items"]
                            ELSE <<>>],
                 [dict |-> TRUE, markers |-> TRUE])
    IN  [ctx EXCEPT !.data = r.data,
                    !.view = SetKey(@, "results", [items |-> r.data["results"]["output"]])]

\* ComponentRegistry.create for the step after transform, when there is one:
\* the KeyError of a name with no factory leaves run as it is
RunTail(wf, ctx) ==
    IF wf.tail = "none" \/ wf.tail \in ServiceComponents THEN ctx
    ELSE [ctx EXCEPT !.raised = TRUE, !.msg = MsgUnknownComponent, !.exc = "KeyError"]

\* a runner that runs transform before call_api
PipelineRun_TransformFirst(wf, ctx, outcome) ==
    LET c1 == ServiceFileUploader(wf, ctx)
        c2 == ServiceCallWorkflow(wf, ServiceTransform(c1), outcome)
    IN  IF c1.raised THEN c1
        ELSE IF c2.raised THEN c2
        ELSE RunTail(wf, c2)

\* PipelineRunner.run: every step of the pipeline in order, from the first,
\* until one raises
PipelineRun(wf, ctx, outcome) ==
    LET c1 == ServiceFileUploader(wf, ctx)
        c2 == ServiceCallWorkflow(wf, c1, outcome)
    IN  IF c1.raised THEN c1
        ELSE IF c2.raised THEN c2
        ELSE RunTail(wf, ServiceTransform(c2))

\* ---------------------------------------------------- sessions, stores
\* WorkflowRuntimeService.create_session: the new WorkflowSession
ServiceNewSession ==
    [status |-> "idle", current_step |-> Nil, error |-> Nil,
     data |-> [inputs |-> EmptyDict, steps |-> EmptyDict,
               workflow_info |-> [name |-> "app"]],
     view |-> [steps |-> EmptyDict, info |-> [name |-> "app"]]]

\* WorkflowRuntimeService.sanitize_view
sanitize_view(session) == session.view

\* WorkflowRuntimeService.sanitize_context
sanitize_context(session) ==
    IF "inputs" \in DOMAIN session.data
    THEN [session.data EXCEPT !["inputs"] = [k \in DOMAIN @ |-> Restrict(@[k], MetaKeys)]]
    ELSE session.data

\* storage.create_session_store: the kind of store built, or the error raised
create_session_store(redis_url, allow_fallback, reachable) ==
    IF redis_url # Nil
    THEN IF reachable THEN "redis"
         ELSE IF allow_fallback THEN "memory" ELSE "SessionStoreError"
    ELSE "memory"

\* runtime_api.get_runtime_service: the store kind of the service it returns,
\* or "503" when it raises HTTPException(503)
get_runtime_service(raw_redis_url, reachable) ==
    LET redis_url == IF raw_redis_url = "memory" THEN Nil
                     ELSE IF raw_redis_url = Absent THEN DefaultRedisUrl
                     ELSE raw_redis_url
        kind == create_session_store(redis_url, FALSE, reachable)
    IN  IF kind = "SessionStoreError" THEN "503"
        ELSE IF redis_url # Nil /\ kind = "memory" THEN "503"
        ELSE kind

\* no service bound yet (lru_cache empty), no session stored
Unbound == [kind |-> "unbound", sessions |-> [k \in {} |-> 0], ttl |-> [k \in {} |-> 0]]

\* no API request made yet
NoApi == [op |-> "none", code |-> 0, inputs |-> EmptyDict, status |-> Nil,
          current_step |-> Nil, view |-> EmptyDict, context |-> EmptyDict, error |-> Nil,
          sent |-> EmptyDict, provider |-> [status |-> 0, json |-> FALSE], saves |-> <<>>]

\* no overlapping client, no for_each step and no workflow document is part
\* of the behaviour
ClientsIdle ==
    /\ inflight = <<>>
    /\ solo = <<>>
    /\ fe = [pc |-> "idle"]
    /\ ydoc = [pc |-> "idle"]
    /\ stores = [pc |-> "idle"]

\* the runtime API is not part of the behaviour
ServiceIdle ==
    /\ env = [redis_url |-> "memory", reachable |-> FALSE, down |-> FALSE,
              workflow |-> [target |-> <<"inputs", "upload">>, view_path |-> FALSE,
                            tail |-> "none", source |-> <<"inputs", "upload">>]]
    /\ service = Unbound
    /\ api = NoApi

\* ------------------------------------------------------- requests, replies
\* no submit_step call in flight
IdleReq == [pc |-> "idle", step_id |-> NoStep, file |-> NoFile, cur |-> NoStep,
            auto |-> FALSE, session |-> NewSession, ran |-> <<>>, raised_at |-> NoStep, msg |-> Nil]

NoRequest == [op |-> "none", sid |-> Nil, step_id |-> NoStep, file |-> NoFile]

\* a reply: kind is "state" (a public state), "ValueError" (rejected before any
\* change), "error" (a step raised), "not_found", "pending" or "crash"
Reply(kind) == [kind |-> kind, view |-> to_public_state(NewSession), error |-> Nil,
                ran |-> <<>>, raised_at |-> NoStep, lost |-> NewSession]

Init ==
    /\ doc \in Documents
    /\ store = [k \in {} |-> 0]
    /\ req = IdleReq
    /\ request = NoRequest
    /\ response = Reply("none")
    /\ calls = 0
    /\ ServiceIdle
    /\ ClientsIdle

\* WorkflowEngine.create_session
CreateSession ==
    /\ req.pc = "idle"
    /\ ~StoreHas(SessionId)
    /\ store' = StoreSave(SessionId, NewSession)
    /\ request' = [NoRequest EXCEPT !.op = "create_session", !.sid = SessionId]
    /\ response' = [Reply("state") EXCEPT !.view = to_public_state(NewSession)]
    /\ UNCHANGED <<doc, req, calls, aux_vars>>

\* WorkflowEngine.get_session
GetSession(sid) ==
    /\ req.pc = "idle"
    /\ request' = [NoRequest EXCEPT !.op = "get_session", !.sid = sid]
    /\ response' = IF StoreHas(sid)
                   THEN [Reply("state") EXCEPT !.view = to_public_state(store[sid])]
                   ELSE Reply("not_found")
    /\ UNCHANGED <<doc, store, req, calls, aux_vars>>

\* WorkflowEngine.submit_step, lines 92-111: load, validate, mark running
SubmitStepBegin(sid, step_id, file) ==
    /\ req.pc = "idle"
    /\ calls < MaxCalls
    \* clients attach a file only to a step that takes one
    /\ file # NoFile => (step_id \in Positions /\ UiStepParam(step_id) # NoStep)
    /\ calls' = calls + 1
    /\ request' = [op |-> "submit_step", sid |-> sid, step_id |-> step_id, file |-> file]
    /\ IF ~StoreHas(sid)
       THEN /\ response' = Reply("ValueError")
            /\ UNCHANGED req
       ELSE LET session == store[sid]
                expected_step == NextUserStep(session.pipeline_index)
            IN  IF \/ (expected_step # NoStep /\ expected_step # step_id)
                   \/ step_id \notin Positions
                   \/ ~HasHandler(step_id)
                THEN /\ response' = Reply("ValueError")
                     /\ UNCHANGED req
                ELSE /\ req' = [IdleReq EXCEPT
                                  !.pc = "run", !.step_id = step_id, !.file = file,
                                  !.cur = step_id,
                                  !.session = [session EXCEPT
                                      !.status = "processing",
                                      !.step_status = SetKey(@, step_id, "running"),
                                      !.last_error = Nil]]
                     /\ response' = Reply("pending")
    /\ UNCHANGED <<doc, store, aux_vars>>

\* a client sends submit_step for the session with some step id and file
SubmitStep ==
    \E step_id \in 0..Len(doc), file \in Files \cup {NoFile} :
        SubmitStepBegin(SessionId, step_id, file)

\* one _execute_step of the call in flight (the submitted step, then each
\* step of _execute_autonomous_steps), up to the next suspension point
ExecuteStep(outcome) ==
    /\ req.pc = "run"
    /\ LET i == req.cur
           \* line 114 passes payload and file, line 170 passes file=None
           r == execute_step(req.session, i, IF req.auto THEN NoFile ELSE req.file, outcome)
       IN  IF r.raised
              THEN req' = [req EXCEPT !.pc = "raise", !.auto = TRUE, !.session = r.session,
                                      !.ran = Append(@, i), !.raised_at = i, !.msg = r.msg]
              ELSE LET nxt == autonomous_next(r.session)
                       ran1 == IF r.invoked THEN Append(req.ran, i) ELSE req.ran
                   IN  CASE nxt = "run" ->
                              req' = [req EXCEPT !.auto = TRUE, !.session = r.session,
                                                 !.ran = ran1,
                                                 !.cur = r.session.pipeline_index + 1]
                         [] nxt = "raise" ->
                              req' = [req EXCEPT !.pc = "raise", !.auto = TRUE,
                                                 !.session = r.session,
                                                 !.ran = ran1, !.msg = MsgUnsupported]
                         [] OTHER ->
                              req' = [req EXCEPT !.pc = "finish", !.auto = TRUE,
                                                 !.session = r.session, !.ran = ran1]
    /\ UNCHANGED <<doc, store, request, response, calls, aux_vars>>

\* WorkflowEngine.submit_step, lines 116 and 126-128: status, save, return
SubmitStepReturn ==
    /\ req.pc = "finish"
    /\ LET session == update_session_status(req.session)
       IN  /\ store' = StoreSave(request.sid, session)
           /\ response' = [Reply("state") EXCEPT !.view = to_public_state(session),
                                                 !.ran = req.ran]
    /\ req' = IdleReq
    /\ UNCHANGED <<doc, request, calls, aux_vars>>

\* the except branch without the save of line 123
SubmitStepRaise_NoSave ==
    /\ req.pc = "raise"
    /\ LET session == [req.session EXCEPT
                          !.step_status = SetKey(@, req.step_id, "error"),
                          !.status = "awaiting_input",
                          !.last_error = req.msg]
       IN  response' = [Reply("error") EXCEPT !.view = to_public_state(session),
                                              !.error = req.msg, !.ran = req.ran,
                                              !.raised_at = req.raised_at]
    /\ req' = IdleReq
    /\ UNCHANGED <<doc, store, request, calls, aux_vars>>

\* WorkflowEngine.submit_step, lines 117-124: the except branch
SubmitStepRaise ==
    /\ req.pc = "raise"
    /\ LET session == [req.session EXCEPT
                          !.step_status = SetKey(@, req.step_id, "error"),
                          !.status = "awaiting_input",
                          !.last_error = req.msg]
       IN  /\ store' = StoreSave(request.sid, session)
           /\ response' = [Reply("error") EXCEPT !.view = to_public_state(session),
                                                 !.error = req.msg, !.ran = req.ran,
                                                 !.raised_at = req.raised_at]
    /\ req' = IdleReq
    /\ UNCHANGED <<doc, request, calls, aux_vars>>

\* the process dies while a call is in flight: the working copy is lost
Crash ==
    /\ req.pc # "idle"
    /\ req' = IdleReq
    /\ response' = [Reply("crash") EXCEPT !.lost = req.session, !.ran = req.ran]
    /\ UNCHANGED <<doc, store, request, calls, aux_vars>>

Next ==
    \/ CreateSession
    \/ GetSession(SessionId)
    \/ SubmitStep
    \/ \E outcome \in ProviderOutcomes : ExecuteStep(outcome)
    \/ SubmitStepReturn
    \/ SubmitStepRaise
    \/ Crash

Spec == Init /\ [][Next]_vars

\* ------------------------------------------- the runtime API: specification
\* the WorkflowEngine is not part of the behaviour
EngineIdle ==
    /\ doc = <<[component |-> "call_workflow", falsy |-> FALSE]>>
    /\ store = [k \in {} |-> 0]
    /\ req = IdleReq
    /\ request = NoRequest
    /\ response = Reply("none")
    /\ calls = 0

\* Depends(get_runtime_service): the store kind of the cached service, or the
\* outcome of building one (lru_cache keeps a result, never an exception)
Resolve ==
    IF service.kind # "unbound" THEN service.kind
    ELSE get_runtime_service(env.redis_url, env.reachable)

\* the reply of a request whose dependency raised HTTPException(503)
Unavailable(op) == [NoApi EXCEPT !.op = op, !.code = 503]

\* the 200 reply built from a session (WorkflowSessionResponse)
SessionResponse(op, inputs, session) ==
    [op |-> op, code |-> 200, inputs |-> inputs, status |-> session.status,
     current_step |-> session.current_step, view |-> sanitize_view(session),
     context |-> sanitize_context(session), error |-> session.error, sent |-> EmptyDict,
     provider |-> [status |-> 0, json |-> FALSE], saves |-> <<>>]

\* SessionStore.save
ServiceSave(sid, session) ==
    [k \in (DOMAIN service.sessions) \cup {sid} |->
        IF k = sid THEN session ELSE service.sessions[k]]

\* runtime/config.py session_ttl_seconds, the configured session TTL
SessionTtl == 1800

\* the time to live of each key of the Redis store after RedisSessionStore.save
\* of sid: self._client.set(key, payload) passes no ex, and a SET without one
\* leaves the key without expiry (TTL -1); the in-memory store keeps no TTL
RedisTtl(kind, sid) ==
    IF kind # "redis" THEN service.ttl
    ELSE [k \in (DOMAIN service.ttl) \cup {sid} |-> IF k = sid THEN 0 - 1 ELSE service.ttl[k]]

\* the bound store is the Redis store and the connection to Redis is lost:
\* self._client.get / set raise redis.exceptions.ConnectionError
StoreDown == service.kind = "redis" /\ env.down

\* the reply to a request whose handler raised an exception that is not an
\* HTTPException (execute_session wraps it into HTTPException(500))
ServerError(op, inputs) == [NoApi EXCEPT !.op = op, !.code = 500, !.inputs = inputs]

\* POST /api/runtime/sessions
ApiCreateSession ==
    /\ SessionId \notin DOMAIN service.sessions
    /\ IF Resolve = "503"
       THEN /\ api' = Unavailable("create_session")
            /\ UNCHANGED service
       ELSE IF StoreDown
       THEN /\ api' = ServerError("create_session", EmptyDict)
            /\ UNCHANGED service
       ELSE /\ service' = [kind |-> Resolve,
                           sessions |-> ServiceSave(SessionId, ServiceNewSession),
                           ttl |-> RedisTtl(Resolve, SessionId)]
            /\ api' = SessionResponse("create_session", EmptyDict, ServiceNewSession)
    /\ UNCHANGED <<env, engine_vars, inflight, solo, fe, ydoc, stores>>

\* GET /api/runtime/sessions/{session_id}
ApiGetSession(sid) ==
    /\ IF Resolve = "503"
       THEN /\ api' = Unavailable("get_session")
            /\ UNCHANGED service
       ELSE IF StoreDown
       THEN /\ api' = ServerError("get_session", EmptyDict)
            /\ UNCHANGED service
       ELSE /\ service' = [service EXCEPT !.kind = Resolve]
            /\ api' = IF sid \in DOMAIN service.sessions
                      THEN SessionResponse("get_session", EmptyDict, service.sessions[sid])
                      ELSE [NoApi EXCEPT !.op = "get_session", !.code = 404]
    /\ UNCHANGED <<env, engine_vars, inflight, solo, fe, ydoc, stores>>

\* mark_running without line 26: the error of an earlier run is kept
mark_running_KeepsError(session, step_id) ==
    [session EXCEPT !.status = "running", !.current_step = step_id]

\* WorkflowSession.mark_running
mark_running(session, step_id) ==
    [session EXCEPT !.status = "running", !.current_step = step_id, !.error = Nil]

\* WorkflowSession.mark_failed
mark_failed(session, message) ==
    [session EXCEPT !.status = "failed", !.error = message]

\* WorkflowSession.mark_completed
mark_completed(session) == [session EXCEPT !.status = "completed"]

\* WorkflowRuntimeService.execute_session, lines 97-103: the context built from
\* shallow copies of the session's data and view, with the request's inputs
ExecutionContextOf(session, inputs) ==
    [data |-> IF DOMAIN inputs # {}
              THEN [session.data EXCEPT !["inputs"] = deep_merge(@, inputs)]
              ELSE session.data,
     view |-> session.view, raised |-> FALSE, msg |-> Nil, sent |-> EmptyDict, exc |-> Nil]

\* WorkflowRuntimeService.execute_session: the session it saves last and
\* whether it raised. dict(session.data) is a shallow copy: what a component
\* writes inside a container the session already has is written to the
\* session's own container; a key added at the top level is not.
execute_session(session, inputs, step_id, outcome) ==
    LET running == mark_running(session, step_id)
        r == PipelineRun(env.workflow, ExecutionContextOf(running, inputs), outcome)
        failed == mark_failed([running EXCEPT !.data = Restrict(r.data, DOMAIN @)], r.msg)
        completed == mark_completed([running EXCEPT !.data = r.data, !.view = r.view])
        \* what line 95, then line 109 or 116, hand to SessionStore.save
        saved(last) == <<[status |-> running.status, error |-> running.error],
                         [status |-> last.status, error |-> last.error]>>
    IN  IF r.raised
        THEN [raised |-> TRUE, sent |-> r.sent, exc |-> r.exc, session |-> failed,
              saves |-> saved(failed)]
        ELSE [raised |-> FALSE, sent |-> r.sent, exc |-> Nil, session |-> completed,
              saves |-> saved(completed)]

\* POST /api/runtime/sessions/{session_id}/execute
ApiExecuteSession(sid, inputs, outcome) ==
    /\ IF Resolve = "503"
       THEN /\ api' = [Unavailable("execute_session") EXCEPT !.inputs = inputs]
            /\ UNCHANGED service
       ELSE IF StoreDown
       THEN /\ api' = ServerError("execute_session", inputs)
            /\ UNCHANGED service
       ELSE IF sid \notin DOMAIN service.sessions
       THEN /\ service' = [service EXCEPT !.kind = Resolve]
            /\ api' = [NoApi EXCEPT !.op = "execute_session", !.code = 404,
                                    !.inputs = inputs]
       ELSE LET r == execute_session(service.sessions[sid], inputs, "upload_step", outcome)
            IN  /\ service' = [kind |-> Resolve, sessions |-> ServiceSave(sid, r.session),
                                   ttl |-> RedisTtl(Resolve, sid)]
                /\ api' = IF r.raised
                          THEN [NoApi EXCEPT !.op = "execute_session",
                                             !.code = IF r.exc = "ComponentExecutionError"
                                                      THEN 400 ELSE 500,
                                             !.inputs = inputs, !.error = r.session.error,
                                             !.sent = r.sent, !.provider = outcome,
                                             !.saves = r.saves]
                          ELSE [SessionResponse("execute_session", inputs, r.session)
                                   EXCEPT !.sent = r.sent, !.provider = outcome,
                                          !.saves = r.saves]
    /\ UNCHANGED <<env, engine_vars, inflight, solo, fe, ydoc, stores>>

\* the connection to Redis is lost after the Redis store was bound
RedisLost ==
    /\ service.kind = "redis"
    /\ ~env.down
    /\ env' = [env EXCEPT !.down = TRUE]
    /\ UNCHANGED <<service, api, engine_vars, inflight, solo, fe, ydoc, stores>>

ServiceInit ==
    /\ EngineIdle
    /\ env \in [redis_url : RedisUrls, reachable : BOOLEAN, down : {FALSE},
                workflow : ServiceWorkflows]
    /\ service = Unbound
    /\ api = NoApi
    /\ ClientsIdle

ServiceNext ==
    \/ RedisLost
    \/ ApiCreateSession
    \/ ApiGetSession(SessionId)
    \/ \E inputs \in ExecuteInputs, outcome \in HttpOutcomes :
          ApiExecuteSession(SessionId, inputs, outcome)

ServiceSpec == ServiceInit /\ [][ServiceNext]_vars

\* ------------------------------------- overlapping requests: specification
\* the coroutines that run submit_step at the same time
Clients == {1, 2}

\* the session ids in use
SessionIds == {"s1", "s2"}

\* the documents of the overlapping requests
ConcDocuments == {d \in Documents : Len(d) <= MaxConcSteps}

\* a client with no submit_step in flight; sid is the session it works on
IdleCall(sid) ==
    [pc |-> "idle", sid |-> sid, step_id |-> NoStep, file |-> NoFile, cur |-> NoStep,
     auto |-> FALSE, session |-> NewSession, loaded |-> NewSession,
     solo |-> NewSession, msg |-> Nil]

\* a dict with one entry set
Put(d, key, value) == [k \in (DOMAIN d) \cup {key} |-> IF k = key THEN value ELSE d[k]]

\* WorkflowEngine.submit_step, lines 108-111: the session marked as running
MarkRunning(session, step_id) ==
    [session EXCEPT !.status = "processing",
                    !.step_status = [@ EXCEPT ![step_id] = "running"],
                    !.last_error = Nil]

\* WorkflowEngine.submit_step, lines 118-121: the session marked as failed
MarkError(session, step_id, message) ==
    [session EXCEPT !.step_status = [@ EXCEPT ![step_id] = "error"],
                    !.status = "awaiting_input",
                    !.last_error = message]

\* WorkflowEngine.create_session for one of the session ids in use
ConcCreateSession(sid) ==
    /\ \E c \in Clients : inflight[c].sid = sid
    /\ ~StoreHas(sid)
    /\ store' = StoreSave(sid, NewSession)
    /\ solo' = Put(solo, sid, NewSession)
    /\ UNCHANGED <<doc, req, request, response, calls, inflight, service_vars, fe, ydoc, stores>>

\* WorkflowEngine.submit_step, lines 92-111, run by client c
ConcSubmitStep(c, step_id, file) ==
    LET sid == inflight[c].sid
    IN  /\ inflight[c].pc = "idle"
        /\ calls < MaxCalls
        /\ file # NoFile => (step_id \in Positions /\ UiStepParam(step_id) # NoStep)
        /\ calls' = calls + 1
        /\ IF \/ ~StoreHas(sid)
              \/ step_id \notin Positions
              \/ ~HasHandler(step_id)
              \/ ( /\ NextUserStep(store[sid].pipeline_index) # NoStep
                   /\ NextUserStep(store[sid].pipeline_index) # step_id )
           THEN UNCHANGED inflight
           ELSE inflight' = [inflight EXCEPT ![c] =
                    [IdleCall(sid) EXCEPT
                        !.pc = "run", !.step_id = step_id, !.file = file, !.cur = step_id,
                        !.session = MarkRunning(store[sid], step_id),
                        !.loaded = store[sid],
                        !.solo = MarkRunning(solo[sid], step_id)]]
        /\ UNCHANGED <<doc, store, solo, req, request, response, service_vars, fe, ydoc, stores>>

\* one _execute_step of client c's call, up to its next await
ConcExecuteStep(c, outcome) ==
    LET call == inflight[c]
        file == IF call.auto THEN NoFile ELSE call.file
        r == execute_step(call.session, call.cur, file, outcome)
        alone == execute_step(call.solo, call.cur, file, outcome).session
        nxt == autonomous_next(r.session)
    IN  /\ call.pc = "run"
        /\ inflight' = [inflight EXCEPT ![c] =
              [call EXCEPT
                  !.auto = TRUE, !.session = r.session, !.solo = alone,
                  !.pc = IF r.raised \/ nxt = "raise" THEN "raise"
                         ELSE IF nxt = "run" THEN "run" ELSE "finish",
                  !.cur = IF ~r.raised /\ nxt = "run"
                          THEN r.session.pipeline_index + 1 ELSE @,
                  !.msg = IF r.raised THEN r.msg
                          ELSE IF nxt = "raise" THEN MsgUnsupported ELSE @]]
        /\ UNCHANGED <<doc, store, solo, req, request, response, calls, service_vars, fe, ydoc, stores>>

\* the return of client c's call that saves under every session id in use
ConcReturn_SavesAll(c) ==
    LET call == inflight[c]
    IN  /\ call.pc = "finish"
        /\ store' = [k \in DOMAIN store |-> update_session_status(call.session)]
        /\ solo' = Put(solo, call.sid, update_session_status(call.solo))
        /\ inflight' = [inflight EXCEPT ![c] = IdleCall(call.sid)]
        /\ UNCHANGED <<doc, req, request, response, calls, service_vars, fe, ydoc, stores>>

\* WorkflowEngine.submit_step, lines 116 and 126-128, run by client c
ConcReturn(c) ==
    LET call == inflight[c]
    IN  /\ call.pc = "finish"
        /\ store' = StoreSave(call.sid, update_session_status(call.session))
        /\ solo' = Put(solo, call.sid, update_session_status(call.solo))
        /\ inflight' = [inflight EXCEPT ![c] = IdleCall(call.sid)]
        /\ UNCHANGED <<doc, req, request, response, calls, service_vars, fe, ydoc, stores>>

\* WorkflowEngine.submit_step, lines 117-124, run by client c
ConcRaise(c) ==
    LET call == inflight[c]
    IN  /\ call.pc = "raise"
        /\ store' = StoreSave(call.sid, MarkError(call.session, call.step_id, call.msg))
        /\ solo' = Put(solo, call.sid, MarkError(call.solo, call.step_id, call.msg))
        /\ inflight' = [inflight EXCEPT ![c] = IdleCall(call.sid)]
        /\ UNCHANGED <<doc, req, request, response, calls, service_vars, fe, ydoc, stores>>

\* client 1 works on session s1, client 2 on s1 as well or on s2
ConcInit ==
    /\ doc \in ConcDocuments
    /\ store = [k \in {} |-> 0]
    /\ req = IdleReq
    /\ request = NoRequest
    /\ response = Reply("none")
    /\ calls = 0
    /\ ServiceIdle
    /\ stores = [pc |-> "idle"]
    /\ solo = [k \in {} |-> 0]
    /\ fe = [pc |-> "idle"]
    /\ ydoc = [pc |-> "idle"]
    /\ \E sid \in SessionIds : inflight = [c \in Clients |-> IdleCall(IF c = 1 THEN "s1" ELSE sid)]

\* a client sends submit_step for its session with some step id and file
ConcSubmit ==
    \E c \in Clients, step_id \in 0..Len(doc), file \in Files \cup {NoFile} :
        ConcSubmitStep(c, step_id, file)

ConcNext ==
    \/ \E sid \in SessionIds : ConcCreateSession(sid)
    \/ ConcSubmit
    \/ \E c \in Clients, outcome \in ProviderOutcomes : ConcExecuteStep(c, outcome)
    \/ \E c \in Clients : ConcReturn(c)
    \/ \E c \in Clients : ConcRaise(c)

ConcSpec == ConcInit /\ [][ConcNext]_vars

\* ------------------------------------------------ for_each: specification
\* the step [for_each] of a new session, run by WorkflowEngine._execute_step
EngineForEach ==
    /\ fe.pc = "start"
    /\ LET result == ForEachExecute(fe.source, fe.template)
           session == IF result.raised THEN MarkRunning(NewSession, 0)
                      ELSE apply_result(MarkRunning(NewSession, 0), 0, result)
       IN  fe' = [fe EXCEPT !.pc = "engine", !.raised = result.raised,
                            !.renders = result.direct,
                            !.target = session.public,
                            !.step_output = session.step_outputs]
    /\ UNCHANGED <<engine_vars, service_vars, inflight, solo, ydoc, stores>>

\* the step [transform: for_each] run by PipelineRunner.run on a new session
RunnerForEach ==
    /\ fe.pc = "start"
    /\ LET r == ServiceForEach(ServiceNewSession.data, fe.source, fe.template)
       IN  fe' = [fe EXCEPT !.pc = "service", !.raised = r.raised,
                            !.renders = r.renders,
                            !.target = IF "results" \in DOMAIN r.data
                                       THEN r.data["results"] ELSE EmptyDict,
                            !.step_output = r.data["steps"]]
    /\ UNCHANGED <<engine_vars, service_vars, inflight, solo, ydoc, stores>>

ForEachInit ==
    /\ doc = <<[component |-> "for_each", falsy |-> FALSE]>>
    /\ store = [k \in {} |-> 0]
    /\ req = IdleReq
    /\ request = NoRequest
    /\ response = Reply("none")
    /\ calls = 0
    /\ ServiceIdle
    /\ stores = [pc |-> "idle"]
    /\ inflight = <<>>
    /\ solo = <<>>
    /\ ydoc = [pc |-> "idle"]
    /\ \E source \in Sources, template \in Templates :
          fe = [pc |-> "start", source |-> source, template |-> template,
                raised |-> FALSE, renders |-> 0, target |-> EmptyDict,
                step_output |-> EmptyDict]

ForEachNext == EngineForEach \/ RunnerForEach

ForEachSpec == ForEachInit /\ [][ForEachNext]_vars

\* ------------------------------------------- workflow documents: functions
ProviderIds == {"p1", "p2"}
StepIds == {"a", "b"}

\* a provider kind of the schema, and one that is not
ProviderKinds == {"dify", "bogus"}

\* the lists of at most MaxEntries entries drawn from S
Lists(S) == UNION {[1..n -> S] : n \in 0..MaxEntries}

\* the items of the workflows list of a YAML text; method is not written
ProviderTexts == [id : ProviderIds, provider : ProviderKinds, method : {Absent}]

\* the items of the pipeline list of a YAML text: a call_workflow step whose
\* parameters are written under "with" or "with_" and name a provider
StepTexts == [id : StepIds, key : {"with", "with_"}, workflow : ProviderIds]

\* YAML texts: broken YAML, an empty text, a list, or a mapping with info, ui,
\* workflows and pipeline
Texts ==
    [kind : {"mapping"}, workflows : Lists(ProviderTexts), pipeline : Lists(StepTexts)]
    \cup [kind : {"yaml_error", "empty", "list"}, workflows : {<<>>}, pipeline : {<<>>}]

\* no document / no specification
NoDocument == [kind |-> "None"]

\* codes of the validation errors
ErrYaml == "yaml.parse_error"
ErrMissing == "missing"
ErrLiteral == "literal_error"
ErrValue == "value_error"
MsgRepresenter == "cannot represent an object"
MsgUnknownProvider == "Unknown workflow provider"

\* a uniqueness validator that accepts every list
ensure_ids_unique_AcceptsAll(entries) == <<>>

\* _ensure_provider_ids_unique / _ensure_pipeline_ids_unique: the error raised
\* when an id is seen twice
ensure_ids_unique(entries) ==
    IF \E i, j \in 1..Len(entries) : i < j /\ entries[i].id = entries[j].id
    THEN <<ErrValue>> ELSE <<>>

\* WorkflowDocument.model_validate of a mapping: the errors collected; the
\* validator of workflows runs only when every item is valid
DocumentErrors(text) ==
    LET bad == SelectSeq(text.workflows, LAMBDA p : p.provider \notin {"dify", "mock", "http"})
    IN  [i \in 1..Len(bad) |-> ErrLiteral]
        \o (IF bad = <<>> THEN ensure_ids_unique(text.workflows) ELSE <<>>)
        \o ensure_ids_unique(text.pipeline)

\* WorkflowLoader.from_yaml_text: the document, or the exception raised and
\* the errors it carries
from_yaml_text(text) ==
    IF text.kind = "yaml_error"
    THEN [raised |-> "YAMLError", document |-> NoDocument, errors |-> <<>>]
    ELSE IF text.kind # "mapping"
    THEN [raised |-> "ValidationError", document |-> NoDocument, errors |-> <<ErrMissing>>]
    ELSE IF DocumentErrors(text) # <<>>
    THEN [raised |-> "ValidationError", document |-> NoDocument, errors |-> DocumentErrors(text)]
    ELSE [raised |-> Nil, document |->
            [version |-> "1",
             workflows |-> [i \in 1..Len(text.workflows) |->
                 [id |-> text.workflows[i].id, provider |-> text.workflows[i].provider,
                  method |-> IF text.workflows[i].method = Absent THEN "POST"
                             ELSE text.workflows[i].method]],
             pipeline |-> [i \in 1..Len(text.pipeline) |->
                 [id |-> text.pipeline[i].id, type |-> "call_workflow",
                  with_ |-> [workflow |-> text.pipeline[i].workflow]]]],
          errors |-> <<>>]

\* WorkflowSerializer.to_yaml: model_dump(mode="json") writes field names
to_yaml(document) ==
    [kind |-> "mapping",
     workflows |-> [i \in 1..Len(document.workflows) |->
         [id |-> document.workflows[i].id, provider |-> document.workflows[i].provider,
          method |-> document.workflows[i].method]],
     pipeline |-> [i \in 1..Len(document.pipeline) |->
         [id |-> document.pipeline[i].id, key |-> "with_",
          workflow |-> document.pipeline[i].with_["workflow"]]]]

\* WorkflowValidator.validate_yaml: (document, errors)
validate_yaml(text) ==
    LET r == from_yaml_text(text)
    IN  IF r.raised = "YAMLError" THEN [document |-> NoDocument, errors |-> <<ErrYaml>>]
        ELSE IF r.raised = "ValidationError" THEN [document |-> NoDocument, errors |-> r.errors]
        ELSE [document |-> r.document, errors |-> <<>>]

\* a member of the enumeration WorkflowProvider(str, Enum)
EnumMember(value) == [enum |-> "WorkflowProvider", value |-> value]

\* WorkflowSpecification.from_yaml on the workflows of a text: alias id is
\* read into identifier, provider into a member of the enumeration
SpecFromYaml(text) ==
    IF text.kind \in {"RepresenterError", "yaml_error"} THEN NoDocument
    ELSE IF text.kind # "mapping" THEN NoDocument
    ELSE IF \E i \in 1..Len(text.workflows) : text.workflows[i].provider \notin {"dify", "mock"}
    THEN NoDocument
    ELSE [kind |-> "specification",
          workflows |-> [i \in 1..Len(text.workflows) |->
              [identifier |-> text.workflows[i].id,
               provider |-> EnumMember(text.workflows[i].provider),
               method |-> IF text.workflows[i].method = Absent THEN "POST"
                          ELSE text.workflows[i].method]]]

\* WorkflowSpecification.to_yaml: model_dump(by_alias=True) keeps the members
\* of the enumeration, which yaml.safe_dump cannot represent
SpecToYaml(spec) ==
    IF \E i \in 1..Len(spec.workflows) : spec.workflows[i].provider \in {EnumMember(v) : v \in {"dify", "mock"}}
    THEN [kind |-> "RepresenterError", workflows |-> <<>>, pipeline |-> <<>>]
    ELSE [kind |-> "mapping", pipeline |-> <<>>,
          workflows |-> [i \in 1..Len(spec.workflows) |->
              [id |-> spec.workflows[i].identifier, provider |-> spec.workflows[i].provider,
               method |-> spec.workflows[i].method]]]

\* --------------------------------------- workflow documents: specification
\* WorkflowValidator.validate_yaml(text)
ValidateYaml ==
    /\ ydoc.pc = "text"
    /\ LET r == validate_yaml(ydoc.text)
       IN  ydoc' = [ydoc EXCEPT !.pc = "validated", !.document = r.document, !.errors = r.errors]
    /\ UNCHANGED <<engine_vars, service_vars, inflight, solo, fe, stores>>

\* WorkflowSerializer.to_yaml(document), then WorkflowLoader.from_yaml_text
DocumentRoundTrip ==
    /\ ydoc.pc = "validated"
    /\ ydoc.document # NoDocument
    /\ ydoc' = [ydoc EXCEPT !.pc = "reloaded", !.yaml = to_yaml(ydoc.document),
                        !.reloaded = from_yaml_text(to_yaml(ydoc.document)).document]
    /\ UNCHANGED <<engine_vars, service_vars, inflight, solo, fe, stores>>

\* CallWorkflowComponent.execute on a step of the loaded document, up to
\* _resolve_provider
RunCallWorkflow ==
    /\ ydoc.pc = "validated"
    /\ ydoc.document # NoDocument
    /\ \E i \in 1..Len(ydoc.document.pipeline) :
          LET workflow_name == ydoc.document.pipeline[i].with_["workflow"]
              declared == {ydoc.document.workflows[j].id : j \in 1..Len(ydoc.document.workflows)}
          IN  ydoc' = [ydoc EXCEPT !.pc = "ran", !.step = i,
                               !.error = IF workflow_name \in declared THEN Nil
                                         ELSE MsgUnknownProvider]
    /\ UNCHANGED <<engine_vars, service_vars, inflight, solo, fe, stores>>

\* WorkflowSpecification.from_yaml(text), then to_yaml, then from_yaml
SpecRoundTrip ==
    /\ ydoc.pc = "spec_text"
    /\ LET spec == SpecFromYaml(ydoc.text)
           dumped == IF spec = NoDocument THEN ydoc.yaml ELSE SpecToYaml(spec)
       IN  ydoc' = [ydoc EXCEPT !.pc = "spec_reloaded", !.document = spec, !.yaml = dumped,
                            !.reloaded = IF spec = NoDocument THEN NoDocument
                                         ELSE SpecFromYaml(dumped),
                            !.error = IF dumped.kind = "RepresenterError"
                                      THEN MsgRepresenter ELSE Nil]
    /\ UNCHANGED <<engine_vars, service_vars, inflight, solo, fe, stores>>

DocInit ==
    /\ doc = <<>>
    /\ store = [k \in {} |-> 0]
    /\ req = IdleReq
    /\ request = NoRequest
    /\ response = Reply("none")
    /\ calls = 0
    /\ ServiceIdle
    /\ stores = [pc |-> "idle"]
    /\ inflight = <<>>
    /\ solo = <<>>
    /\ fe = [pc |-> "idle"]
    /\ \E text \in Texts, pc \in {"text", "spec_text"} :
          /\ pc = "spec_text" => (text.kind = "mapping" /\ text.pipeline = <<>>)
          /\ ydoc = [pc |-> pc, text |-> text, document |-> NoDocument, errors |-> <<>>,
                   yaml |-> [kind |-> "None", workflows |-> <<>>, pipeline |-> <<>>],
                   reloaded |-> NoDocument, step |-> 0, error |-> Nil]

DocNext == ValidateYaml \/ DocumentRoundTrip \/ RunCallWorkflow \/ SpecRoundTrip

DocSpec == DocInit /\ [][DocNext]_vars

\* ------------------------------------- the session stores: specification
\* One caller drives an InMemorySessionStore and a RedisSessionStore with the
\* same calls. Each side is the WorkflowSession object its caller holds (obj)
\* and what the store keeps under the session's id: the in-memory store keeps
\* a reference to the object it was given (has), the Redis store the bytes of
\* the object as it was at save (payload). saved is the session as it was at
\* the last save, loaded what the last load returned.

\* WorkflowSession.to_dict, then orjson.dumps: the fields with the shape of
\* the serialized record (a JSON object keyed by field name)
to_dict(session) == [json |-> session]

\* orjson.loads, then WorkflowSession.from_dict: a new object
from_dict(payload) == payload.json

\* the state changes a caller makes to the session object it holds
Marks ==
    {"mark_running", "mark_failed", "mark_completed"}

\* WorkflowSession.mark_running / mark_failed / mark_completed by name
Mark(session, m) ==
    IF m = "mark_running" THEN mark_running(session, "upload_step")
    ELSE IF m = "mark_failed" THEN mark_failed(session, MsgNotProvided)
    ELSE mark_completed(session)

\* the caller builds a session (WorkflowRuntimeService.create_session) and
\* saves it
SessionStoreCreate ==
    /\ stores.pc = "ready"
    /\ stores.mem.obj = PyNone
    /\ stores' = [stores EXCEPT !.op = "create",
                                !.mem = [obj |-> ServiceNewSession, has |-> TRUE,
                                         saved |-> ServiceNewSession, loaded |-> PyNone],
                                !.red = [obj |-> ServiceNewSession,
                                         payload |-> to_dict(ServiceNewSession),
                                         saved |-> ServiceNewSession, loaded |-> PyNone]]
    /\ UNCHANGED <<engine_vars, service_vars, inflight, solo, fe, ydoc>>

\* the caller changes the object it holds, without saving it
SessionStoreMark(m) ==
    /\ stores.pc = "ready"
    /\ stores.mem.obj # PyNone
    /\ stores' = [stores EXCEPT !.op = m,
                                !.mem.obj = Mark(@, m),
                                !.red.obj = Mark(@, m)]
    /\ UNCHANGED <<engine_vars, service_vars, inflight, solo, fe, ydoc>>

\* InMemorySessionStore.save: self._sessions[id] = session (the object);
\* RedisSessionStore.save: set(key, orjson.dumps(session.to_dict()))
SessionStoreSave ==
    /\ stores.pc = "ready"
    /\ stores.mem.obj # PyNone
    /\ stores' = [stores EXCEPT !.op = "save",
                                !.mem.has = TRUE,
                                !.mem.saved = stores.mem.obj,
                                !.red.payload = to_dict(stores.red.obj),
                                !.red.saved = stores.red.obj]
    /\ UNCHANGED <<engine_vars, service_vars, inflight, solo, fe, ydoc>>

\* InMemorySessionStore.load: self._sessions.get(id), the object itself;
\* RedisSessionStore.load: None without payload, else from_dict of the bytes.
\* The caller goes on with the object it was returned.
SessionStoreLoad ==
    /\ stores.pc = "ready"
    /\ LET m == IF stores.mem.has THEN stores.mem.obj ELSE PyNone
           r == IF stores.red.payload = PyNone THEN PyNone
                ELSE from_dict(stores.red.payload)
       IN  stores' = [stores EXCEPT !.op = "load",
                                    !.mem.loaded = m,
                                    !.red.loaded = r,
                                    !.red.obj = IF r = PyNone THEN @ ELSE r]
    /\ UNCHANGED <<engine_vars, service_vars, inflight, solo, fe, ydoc>>

\* InMemorySessionStore.delete: pop(id, None); RedisSessionStore.delete
SessionStoreDelete ==
    /\ stores.pc = "ready"
    /\ stores' = [stores EXCEPT !.op = "delete",
                                !.mem.has = FALSE, !.mem.saved = PyNone,
                                !.red.payload = PyNone, !.red.saved = PyNone]
    /\ UNCHANGED <<engine_vars, service_vars, inflight, solo, fe, ydoc>>

StoreInit ==
    /\ EngineIdle
    /\ ServiceIdle
    /\ inflight = <<>>
    /\ solo = <<>>
    /\ fe = [pc |-> "idle"]
    /\ ydoc = [pc |-> "idle"]
    /\ stores = [pc |-> "ready", op |-> "none",
                 mem |-> [obj |-> PyNone, has |-> FALSE, saved |-> PyNone, loaded |-> PyNone],
                 red |-> [obj |-> PyNone, payload |-> PyNone, saved |-> PyNone,
                          loaded |-> PyNone]]

StoreNext ==
    \/ SessionStoreCreate
    \/ \E m \in Marks : SessionStoreMark(m)
    \/ SessionStoreSave
    \/ SessionStoreLoad
    \/ SessionStoreDelete

StoreSpec == StoreInit /\ [][StoreNext]_vars

\* ------------------------------------------------------------- properties
\* the persisted session of the behaviour's session id
Stored == store[SessionId]

\* the fields a rejected or forbidden call must leave alone
Core(s) == <<s.status, s.pipeline_index, s.step_status, s.public, s.private>>

\* step_id names a step that requires user input and lies at or before the cursor
PriorUiStep(step_id, s) ==
    /\ step_id \in Positions
    /\ HasHandler(step_id)
    /\ RequiresUserInput(StepAt(step_id).component)
    /\ step_id <= s.pipeline_index

\* the position at which continuation after step i must stop: the next step
\* that requires user input, or the end of the pipeline
StopAfter(i) ==
    Min({j \in Positions : j > i /\ RequiresUserInput(StepAt(j).component)} \cup {Len(doc)})

RECURSIVE SortedSeq(_)
\* the elements of a finite set of ints in increasing order
SortedSeq(S) == IF S = {} THEN <<>> ELSE <<Min(S)>> \o SortedSeq(S \ {Min(S)})

\* C1 (as claimed): a submit_step whose step id is not the expected interactive
\* step (also when no interactive step remains after the cursor) is rejected
\* with a ValueError and changes neither the working state nor the store.
C1_Original ==
    [][ ( /\ req.pc = "idle"
          /\ calls' = calls + 1
          /\ StoreHas(SessionId)
          /\ request'.step_id # NextUserStep(Stored.pipeline_index) )
        => ( /\ response'.kind = "ValueError"
             /\ store' = store
             /\ req' = req ) ]_vars

\* C2 (as claimed): while a call that does not target an earlier UI step is in
\* flight or finishes, the persisted pipeline cursor never decreases.
C2_Original ==
    [][ ( /\ StoreHas(SessionId)
          /\ req.pc # "idle"
          /\ ~PriorUiStep(req.step_id, Stored) )
        => store'[SessionId].pipeline_index >= Stored.pipeline_index ]_vars

C4_Original ==
    (request.op = "submit_step" /\ response.kind \in {"state", "error"}) =>
        /\ \A i \in Positions : Stored.step_status[i] # "running"
        /\ response.raised_at # NoStep =>
             /\ Stored.step_status[response.raised_at] = "error"
             /\ \A n \in 1..Len(response.ran) :
                   response.ran[n] # response.raised_at
                       => Stored.step_status[response.ran[n]] # "error"

\* C5 (as claimed): after a submission failed on a provider error, the same
\* submission sent again is accepted (and retries the failed step).
C5_Original ==
    [][ ( /\ req.pc = "idle"
          /\ response.kind = "error"
          /\ response.error = MsgHttp500
          /\ calls' = calls + 1
          /\ request' = request )
        => req'.pc = "run" ]_vars

\* C6 (as claimed): when the process dies between two steps of a call, every
\* step the call had completed is completed in the store, with the cursor and
\* the context deltas of those steps.
C6_Original ==
    response.kind = "crash" =>
        /\ \A i \in Positions :
              response.lost.step_status[i] = "completed"
                  => Stored.step_status[i] = "completed"
        /\ Stored.pipeline_index = response.lost.pipeline_index
        /\ Stored.public = response.lost.public
        /\ Stored.private = response.lost.private

\* C7: a successful submit_step of step i has run, in pipeline order, every
\* step from i up to the next step that requires user input (or the end of the
\* pipeline); it leaves completed at the end of the pipeline and otherwise
\* awaiting_input with that step's UI step active; a step that requires user
\* input is only ever run as the submitted step.
C7_AutonomousContinuation ==
    /\ \A n \in 1..Len(req.ran) :
          RequiresUserInput(StepAt(req.ran[n]).component) => req.ran[n] = req.step_id
    /\ (request.op = "submit_step" /\ response.kind = "state") =>
         LET i == request.step_id
             k == StopAfter(i)
         IN  /\ Stored.pipeline_index = k - 1
             /\ \A j \in i..(k - 1) : Stored.step_status[j] = "completed"
             /\ response.ran = SortedSeq({j \in i..(k - 1) : ~StepAt(j).falsy})
             /\ \A n \in 1..Len(response.ran) :
                   RequiresUserInput(StepAt(response.ran[n]).component)
                       => response.ran[n] = i
             /\ IF k = Len(doc)
                THEN Stored.status = "completed"
                ELSE /\ Stored.status = "awaiting_input"
                     /\ Stored.active_ui_step = UiStepParam(k)
             /\ response.view = to_public_state(Stored)

\* C7 witness: a submission ran two further steps on its own and stopped at
\* the next step that requires user input
C7_Witness ==
    /\ request.op = "submit_step"
    /\ response.kind = "state"
    /\ Len(response.ran) >= 3
    /\ StopAfter(request.step_id) < Len(doc)
    /\ Stored.status = "awaiting_input"

\* C8 (as claimed): once the persisted status is completed (or error), a call
\* that is not a resubmission of a prior UI step runs no handler and leaves the
\* cursor, the step statuses and the context as they are.
C8_Original ==
    [][ ( /\ StoreHas(SessionId)
          /\ Stored.status \in {"completed", "error"}
          /\ ~PriorUiStep(request'.step_id, Stored) )
        => ( /\ req'.ran = <<>>
             /\ Core(store'[SessionId]) = Core(Stored)
             /\ req'.pc # "idle" => Core(req'.session) = Core(Stored) ) ]_vars

\* C9 (as claimed): resubmitting an earlier UI step that has later completed
\* steps is accepted and resets every later step to pending.
C9_Original ==
    [][ ( /\ req.pc = "idle"
          /\ calls' = calls + 1
          /\ StoreHas(SessionId)
          /\ PriorUiStep(request'.step_id, Stored)
          /\ \E j \in Positions : j > request'.step_id /\ Stored.step_status[j] = "completed" )
        => ( /\ req'.pc = "run"
             /\ \A j \in Positions :
                   j > request'.step_id => req'.session.step_status[j] = "pending" ) ]_vars

\* the pipeline [set-state, invoke-workflow, accept-file, invoke-workflow]
HappyPathDoc ==
    <<[component |-> "set_state", falsy |-> FALSE],
      [component |-> "call_workflow", falsy |-> FALSE],
      [component |-> "file_uploader", falsy |-> FALSE],
      [component |-> "call_workflow", falsy |-> FALSE]>>

\* C10 (as claimed): on the happy-path pipeline, creating a session and
\* submitting the file step with a file ends completed, with all four steps run
\* once in document order and completed, and the second provider's output in
\* the public context.
C10_Original ==
    ( /\ doc = HappyPathDoc
      /\ calls = 1
      /\ request.op = "submit_step"
      /\ request.step_id = 2
      /\ request.file \in Files
      /\ response.kind = "state" )
    => ( /\ Stored.status = "completed"
         /\ \A i \in Positions : Stored.step_status[i] = "completed"
         /\ response.ran = <<0, 1, 2, 3>>
         /\ 3 \in DOMAIN Stored.public
         /\ Stored.public[3] = "response" )

\* C11 (as claimed): a submit_step for the expected accept-file step that
\* carries no file is recoverable: the call returns a state (nothing is raised),
\* the session is awaiting_input with the file step's UI step active, no
\* last_error is recorded and the step is not marked error.
C11_Original ==
    ( /\ request.op = "submit_step"
      /\ request.file = NoFile
      /\ request.step_id \in Positions
      /\ StepAt(request.step_id).component = "file_uploader"
      /\ response.kind \in {"state", "error"} )
    => ( /\ response.kind = "state"
         /\ Stored.status = "awaiting_input"
         /\ Stored.active_ui_step = UiStepParam(request.step_id)
         /\ Stored.last_error = Nil
         /\ Stored.step_status[request.step_id] # "error" )

\* the raw file contents that occur in a context returned to a client
RawIn(context) ==
    {context[c][k]["content"] :
        <<c, k>> \in {p \in (DOMAIN context) \X {"upload"} :
                         /\ p[2] \in DOMAIN context[p[1]]
                         /\ "content" \in DOMAIN context[p[1]][p[2]]}}

\* C12 (as claimed): no response of the runtime API carries the raw content of
\* an uploaded file: the context and view returned by create, get and execute
\* are the same whatever the content was.
C12_Original ==
    api.code = 200 => (RawIn(api.context) = {} /\ RawIn(api.view) = {})

\* C13 (as claimed): when REDIS_URL is not set, or the Redis it names does not
\* answer at startup, the runtime binds the in-memory store and creating a
\* session succeeds; the Redis store is bound only after a successful ping, and
\* no request fails because Redis was unavailable.
C13_Original ==
    /\ api.code # 503
    /\ service.kind = "redis" => env.reachable
    /\ ( /\ api.op = "create_session"
         /\ (env.redis_url = Absent \/ ~env.reachable) )
       => (api.code = 200 /\ service.kind = "memory")

\* C14: create_session persists and returns a session that is awaiting_input
\* with cursor -1, every pipeline step pending, empty public and private
\* context, no completed UI step, no last_error, and the first UI step of the
\* document active (none when the document has no UI step).
C14_InitialSession ==
    request.op = "create_session" =>
        LET ui == {i \in 0..(Len(doc) - 1) : doc[i + 1].component = "file_uploader"}
        IN  /\ response.kind = "state"
            /\ SessionId \in DOMAIN store
            /\ Stored.status = "awaiting_input"
            /\ Stored.pipeline_index = 0 - 1
            /\ DOMAIN Stored.step_status = 0..(Len(doc) - 1)
            /\ \A i \in 0..(Len(doc) - 1) : Stored.step_status[i] = "pending"
            /\ Stored.public = <<>>
            /\ Stored.private = <<>>
            /\ Stored.completed_ui_steps = <<>>
            /\ Stored.last_error = Nil
            /\ IF ui = {} THEN Stored.active_ui_step = NoStep
               ELSE Stored.active_ui_step \in ui
                    /\ \A i \in ui : Stored.active_ui_step <= i
            /\ response.view = to_public_state(Stored)

\* C14 witness: a session was created for a document whose first UI step is
\* bound to its second pipeline step
C14_Witness ==
    /\ request.op = "create_session"
    /\ Len(doc) >= 2
    /\ Stored.active_ui_step = 1

C16_Original ==
    [][ \A c \in Clients :
          (inflight[c].pc \in {"finish", "raise"} /\ inflight'[c].pc = "idle")
              => LET sid == inflight[c].sid
                     loaded == inflight[c].loaded
                 IN  /\ \A i \in Positions :
                          ( /\ store[sid].step_status[i] = "completed"
                            /\ loaded.step_status[i] # "completed" )
                          => store'[sid].step_status[i] = "completed"
                     /\ \A k \in (DOMAIN store[sid].public) \ (DOMAIN loaded.public) :
                          k \in DOMAIN store'[sid].public ]_vars

\* C17: a for_each step over a list writes, to its target and to its step
\* output, a list as long as the source whose i-th element is the template
\* resolved against the i-th item, after exactly one resolution per item; over
\* an empty list it writes the empty list and resolves nothing.  The runtime
\* engine's component never fails on a list.
C17_ForEachMapsEachItem ==
    (fe.pc \in {"engine", "service"} /\ fe.source.kind = "list")
    => /\ fe.pc = "engine" => ~fe.raised
       /\ ~fe.raised =>
            LET items == fe.source.items
                key == IF fe.pc = "engine" THEN 0 ELSE "transform"
            IN  /\ "output" \in DOMAIN fe.target
                /\ key \in DOMAIN fe.step_output
                /\ fe.step_output[key]["items"] = fe.target["output"]
                /\ Len(fe.target["output"]) = Len(items)
                /\ \A i \in 1..Len(items) :
                      fe.target["output"][i] = render_template(fe.template, items[i])
                /\ fe.renders = Len(items)
                /\ items = <<>> => (fe.target["output"] = <<>> /\ fe.renders = 0)

\* an empty list has been mapped by the engine's for_each, and written
C17_Witness ==
    /\ fe.pc = "engine"
    /\ fe.source = [kind |-> "list", items |-> <<>>]
    /\ ~fe.raised
    /\ fe.target = [output |-> <<>>]

\* C18: for every valid document text, serialising the parsed document and
\* parsing the result succeeds and gives the first parse again, with
\* WorkflowLoader / WorkflowSerializer and with WorkflowSpecification.from_yaml
\* / to_yaml.
C18_Original ==
    /\ ydoc.pc = "reloaded" => ydoc.reloaded = ydoc.document
    /\ (ydoc.pc = "spec_reloaded" /\ ydoc.document # NoDocument)
       => (ydoc.error = Nil /\ ydoc.reloaded = ydoc.document)

\* C19: loading rejects every document in which a pipeline step references a
\* provider id that the document does not declare, so no call_workflow step of
\* a loaded document fails to resolve its provider.
C19_Original ==
    /\ (ydoc.pc \in {"validated", "ran"} /\ ydoc.document # NoDocument)
       => \A i \in 1..Len(ydoc.document.pipeline) :
             \E j \in 1..Len(ydoc.document.workflows) :
                ydoc.document.workflows[j].id = ydoc.document.pipeline[i].with_["workflow"]
    /\ ydoc.pc = "ran" => ydoc.error = Nil

\* C20: validating a text gives a document and no error, or no document and at
\* least one error; a text with two providers or two pipeline steps of the
\* same id gives no document.
C20_ValidationAtomic ==
    ydoc.pc = "validated" =>
        /\ \/ ydoc.document # NoDocument /\ ydoc.errors = <<>>
           \/ ydoc.document = NoDocument /\ ydoc.errors # <<>>
        /\ \A entries \in {ydoc.text.workflows, ydoc.text.pipeline} :
              (\E i, j \in 1..Len(entries) : i # j /\ entries[i].id = entries[j].id)
              => ydoc.document = NoDocument

\* a text whose only fault is two pipeline steps of one id has been validated
C20_Witness ==
    /\ ydoc.pc = "validated"
    /\ ydoc.text.workflows = <<>>
    /\ Len(ydoc.text.pipeline) = 2
    /\ ydoc.text.pipeline[1].id = ydoc.text.pipeline[2].id
    /\ ydoc.document = NoDocument
    /\ ydoc.errors = <<ErrValue>>

\* C21: when the condition of a step renders falsy, _execute_step marks the
\* step completed and moves the cursor to it without invoking the handler and
\* without changing the public context, the private context or the step
\* outputs, for the submitted step and for a step of the autonomous
\* continuation alike.
C21_ConditionShortCircuit ==
    [][ (req.pc = "run" /\ StepAt(req.cur).falsy /\ req'.pc # "idle")
        => /\ req'.ran = req.ran
           /\ req'.session.public = req.session.public
           /\ req'.session.private = req.session.private
           /\ req'.session.step_outputs = req.session.step_outputs
           /\ req'.session.step_status[req.cur] = "completed"
           /\ req'.session.pipeline_index = req.cur ]_vars

\* a step with a falsy condition was skipped by the autonomous continuation of
\* an upload, then submitted itself and skipped again
C21_Witness ==
    /\ Len(doc) = 2
    /\ doc[1].component = "file_uploader"
    /\ doc[2].falsy
    /\ calls = 2
    /\ request.op = "submit_step"
    /\ request.step_id = 1
    /\ response.kind = "state"
    /\ response.ran = <<>>
    /\ store[SessionId].step_status[1] = "completed"
    /\ store[SessionId].pipeline_index = 1
    /\ DOMAIN store[SessionId].public = {0}
    /\ DOMAIN store[SessionId].step_outputs = {0}

\* C22: one execute call runs store_file, call_api and transform one after
\* the other, each seeing what the earlier ones wrote: call_api sends the file
\* as store_file left it under inputs.upload, transform maps the items of
\* call_api's response, and the session ends completed with the mapped items in
\* the view and the stored file's size equal to the decoded length.
C22_StepsSeeEarlierWrites ==
    (api.op = "execute_session" /\ api.code = 200 /\ "upload" \in DOMAIN api.inputs) =>
        LET session == service.sessions[SessionId]
            stored == session.data[env.workflow.target[1]][env.workflow.target[2]]
            mapped == [i \in 1..Len(ProviderResponse.outputs.items) |->
                          render_template([dict |-> TRUE, markers |-> TRUE],
                                          ProviderResponse.outputs.items[i])]
        IN  /\ api.status = "completed"
            /\ session.status = "completed"
            /\ env.workflow.source = <<"inputs", "upload">>
                 => api.sent = [inputs |-> [document |-> session.data["inputs"]["upload"]]]
            /\ ( /\ env.workflow.source = <<"inputs", "upload">>
                 /\ env.workflow.target = <<"inputs", "upload">> )
                 => api.sent.inputs.document = stored
            /\ stored.content = api.inputs["upload"].content
            /\ stored.size = DecodedLen(api.inputs["upload"].content)
            /\ session.data["steps"]["call_api"] = [response |-> ProviderResponse]
            /\ session.data["steps"]["transform"] = [items |-> mapped]
            /\ api.view["results"] = [items |-> mapped]

\* the one-byte file went through the three steps of the pipeline
C22_Witness ==
    /\ api.op = "execute_session"
    /\ api.code = 200
    /\ env.workflow.target = <<"inputs", "upload">>
    /\ env.workflow.source = <<"inputs", "upload">>
    /\ "upload" \in DOMAIN api.inputs
    /\ api.sent.inputs.document.size = 1
    /\ Len(api.view["results"]["items"]) = 2
    /\ api.view["results"]["items"][2].value = "y"

\* C23: an execute call on a session whose steps have all completed and been
\* persisted runs none of them again: it sends no request to the provider.
C23_Original ==
    [][ ( /\ SessionId \in DOMAIN service.sessions
          /\ service.sessions[SessionId].status = "completed"
          /\ "call_api" \in DOMAIN service.sessions[SessionId].data["steps"]
          /\ api'.op = "execute_session" )
        => api'.sent = EmptyDict ]_vars

\* C24: while a handler executes, it writes no field of the session: when
\* handler.execute returns or raises, the session is as _execute_step passed
\* it (the step marked running), whatever the provider answers.
C24_Original ==
    req.pc = "run" =>
        \A outcome \in ProviderOutcomes :
            LET r == execute_step(req.session, req.cur,
                                  IF req.auto THEN NoFile ELSE req.file, outcome)
            IN  r.invoked =>
                    r.handled = [req.session EXCEPT !.step_status = [@ EXCEPT ![req.cur] = "running"]]

\* C25: a run that reaches a step whose component is not registered fails
\* like any other step: the request is answered as a step-level error (400)
\* and the session is saved as failed with the error, the step having run
\* nothing.
C25_Original ==
    ( /\ api.op = "execute_session"
      /\ api.code \notin {404, 503}
      /\ env.workflow.tail \notin ServiceComponents \cup {"none"}
      /\ api.sent # EmptyDict
      /\ api.provider.status \in 200..299 /\ api.provider.json )
    => /\ api.code = 400
       /\ service.sessions[SessionId].status = "failed"
       /\ service.sessions[SessionId].error = api.error
       /\ api.error # Nil

\* C26: a for_each step whose source is not a list (a string, a number, a
\* mapping, a missing path) fails and writes nothing to its target or to its
\* step output.
C26_Original ==
    (fe.pc \in {"engine", "service"} /\ fe.source.kind # "list")
    => /\ fe.raised
       /\ fe.target = EmptyDict
       /\ fe.step_output = EmptyDict

\* C27: a call_workflow step whose one HTTP request does not end in a 2xx
\* response with a JSON body (another status, a body that is not JSON, a
\* timeout or transport error) fails with a ComponentExecutionError (the
\* request is answered 400) and writes no response to the context or the
\* view; a 2xx JSON response is stored under steps.call_api.response.
C27_Original ==
    [][ (api'.op = "execute_session" /\ api'.sent # EmptyDict) =>
          LET old == service.sessions[SessionId]
              new == service'.sessions[SessionId]
          IN  IF api'.provider.status \in 200..299 /\ api'.provider.json
              THEN new.data["steps"]["call_api"] = [response |-> ProviderResponse]
              ELSE /\ api'.code = 400
                   /\ new.status = "failed"
                   /\ "call_api" \in DOMAIN new.data["steps"]
                        => /\ "call_api" \in DOMAIN old.data["steps"]
                           /\ new.data["steps"]["call_api"] = old.data["steps"]["call_api"]
                   /\ new.view = old.view ]_vars

\* C28: a pipeline that contains a set_state step is executable: once the
\* steps before it have succeeded (the file stored, the provider answered),
\* the set_state step completes without input and the run ends completed.
C28_Original ==
    ( /\ api.op = "execute_session"
      /\ env.workflow.tail = "set_state"
      /\ api.provider.status \in 200..299 /\ api.provider.json
      /\ api.sent # EmptyDict )
    => /\ api.code = 200
       /\ api.status = "completed"
       /\ service.sessions[SessionId].status = "completed"

\* C29: every session record the Redis store holds carries an expiry equal
\* to the configured session TTL, after create and after every save.
C29_Original ==
    service.kind = "redis" =>
        \A sid \in DOMAIN service.sessions :
            sid \in DOMAIN service.ttl /\ service.ttl[sid] = SessionTtl

\* C30: a request made after the connection to Redis was lost is not answered
\* with an error: the service goes on with the in-memory store.
C30_Original ==
    [][ (env.down /\ env' = env /\ api'.op # "none")
        => (api'.code < 500 /\ service'.kind = "memory") ]_vars

\* C31: a call_workflow step whose input_mapping refers to a path that is
\* missing from the context fails: no request is sent to the provider with a
\* None in place of the value, and the run is answered as a step error (400).
C31_Original ==
    ( /\ api.op = "execute_session"
      /\ "upload" \in DOMAIN api.inputs
      /\ api.code \notin {404, 500, 503}
      /\ env.workflow.source = <<"inputs", "note">> )
    => /\ api.sent = EmptyDict
       /\ api.code = 400
       /\ service.sessions[SessionId].status = "failed"

\* C32: the in-memory and the Redis store answer every load alike: with None
\* for an id never saved or deleted, and otherwise with a session equal field
\* for field to the session as it was at the last save.
C32_Original ==
    stores.pc = "ready" /\ stores.op = "load"
    => /\ stores.mem.loaded = stores.mem.saved
       /\ stores.red.loaded = stores.red.saved
       /\ stores.mem.loaded = stores.red.loaded

\* C33: a persisted session whose status is completed has every pipeline
\* step completed, the steps before the first interactive step included.
C33_Original ==
    (StoreHas(SessionId) /\ Stored.status = "completed")
    => \A i \in DOMAIN Stored.step_status : Stored.step_status[i] = "completed"

\* C34: with one request at a time, every session the engine has written to
\* the store has status awaiting_input or completed, get_session never
\* returns another status, and no session, stored or being worked on, has
\* status error; processing exists only in the working copy of a call.
C34_StoredStatusSettled ==
    /\ StoreHas(SessionId) => Stored.status \in {"awaiting_input", "completed"}
    /\ (request.op = "get_session" /\ response.kind = "state")
       => response.view.status \in {"awaiting_input", "completed"}
    /\ response.kind \in {"state", "error"}
       => response.view.status \in {"awaiting_input", "completed"}
    /\ req.session.status \in {"awaiting_input", "processing", "completed"}
    /\ req.pc # "idle" => req.session.status = "processing"

\* a call that has run a handler and goes on holds a processing working copy
\* while the store still has the session awaiting input
C34_Witness ==
    /\ req.pc = "run"
    /\ req.ran # <<>>
    /\ req.session.status = "processing"
    /\ StoreHas(SessionId)
    /\ Stored.status = "awaiting_input"

\* C35: the keys of step_status are the pipeline's step ids in every
\* persisted session, in the working copy of every call in flight and in
\* every state returned: no submit_step, accepted or rejected, whatever its
\* step id, adds or removes a key.
C35_StepStatusKeys ==
    /\ StoreHas(SessionId) => DOMAIN Stored.step_status = Positions
    /\ req.pc # "idle" => DOMAIN req.session.step_status = Positions
    /\ response.kind \in {"state", "error"} => DOMAIN response.view.step_status = Positions

\* a submit_step naming a step the document does not have was rejected, and
\* an earlier call had been accepted
C35_Witness ==
    /\ Len(doc) >= 2
    /\ calls = 2
    /\ request.op = "submit_step"
    /\ request.step_id = Len(doc)
    /\ response.kind = "ValueError"
    /\ StoreHas(SessionId)
    /\ \E i \in Positions : Stored.step_status[i] = "completed"
    /\ DOMAIN Stored.step_status = Positions

\* C36: a submit_step call runs each pipeline step at most once, hence at
\* most as many handlers as the pipeline has steps, its continuation moving
\* the cursor one step at a time; and when no step has failed, a session
\* that has received one submission per interactive step (none for a
\* pipeline without interactive step), each accepted, is completed.
C36_Original ==
    /\ \A m, n \in 1..Len(req.ran) : m # n => req.ran[m] # req.ran[n]
    /\ Len(req.ran) <= Len(doc)
    /\ (req.pc = "run" /\ req.auto) => req.cur = req.session.pipeline_index + 1
    /\ ( /\ StoreHas(SessionId)
         /\ req.pc = "idle"
         /\ \A i \in Positions : HasHandler(i)
         /\ calls = Cardinality(UiOrder)
         /\ Stored.last_error = Nil
         /\ \A i \in Positions : Stored.step_status[i] # "error"
         /\ \A i \in UiOrder : Stored.step_status[i] = "completed" )
       => Stored.status = "completed"

\* C37: an execute_session that fails leaves the persisted session's data
\* and view exactly as they were before the call, at every nesting level;
\* only status, error and current_step change.
C37_Original ==
    [][ ( /\ SessionId \in DOMAIN service.sessions
          /\ api'.op = "execute_session"
          /\ api'.code \in {400, 500}
          /\ service'.sessions[SessionId].status = "failed" )
        => /\ service'.sessions[SessionId].data = service.sessions[SessionId].data
           /\ service'.sessions[SessionId].view = service.sessions[SessionId].view ]_vars

====
